---- MODULE Spec2Model ----
(***************************************************************************)
(* Model of src/interface.py: the streaming chat client generate_response  *)
(* (lines 195-304) and the endpoint prober probe_backend_url (lines        *)
(* 79-120).  One behaviour is one call of one of the two functions against *)
(* a scripted server: the script (net) is chosen in Init and fixes what    *)
(* the connection, the status line, every readline() and every probe       *)
(* attempt return.  The call is made directly or by one of the two         *)
(* functions that wrap them, test_model (lines 343-360) and                *)
(* auto_detect_endpoint (lines 137-145), or by the Streamlit script        *)
(* run_prototype (lines 362-686), whose session state is one record and    *)
(* whose user events are actions.  parse_gl (lines 164-191) is called on   *)
(* its own or by the script.                                               *)
(*                                                                         *)
(* Text is modelled structurally.  A body line is a record                 *)
(*   [utf8, lead, pre, pay]                                                *)
(* utf8: the bytes decode as UTF-8; lead: the line starts with white       *)
(* space; pre: the text in front of the payload ("" or "data: ");          *)
(* pay: the payload, blank, the literal [DONE], text that is not JSON, or  *)
(* JSON text together with the value json.loads gives for it.              *)
(* A fragment or log entry is the sequence of the pieces its f-string      *)
(* concatenates.                                                           *)
(***************************************************************************)
EXTENDS Integers, Sequences, FiniteSets, TLC

VARIABLES
    op,               \* the public function called: "generate" or "probe"
    backend,          \* argument backend
    net,              \* the server's script for this call
    pc,               \* position in the called function
    result,           \* "running", "returned" or "raised" (exception left the function)
    exc,              \* the exception raised during the call, cls "none" when none
    reads,            \* completed calls of response.content.readline()
    lines_processed,  \* generate_response's local of that name
    frags,            \* fragments yielded so far, in yield order
    error_log,        \* st.session_state.error_log
    retries,          \* probe_backend_url's argument
    attempt,          \* probe_backend_url's loop variable
    requests,         \* probe requests sent
    sleeps,           \* asyncio.sleep(1) calls of the probe
    reachable,        \* probe_backend_url's return value: "unset", "true", "false"
    caller,           \* "direct", "test_model", "auto_detect_endpoint", "run_prototype"
    api_key,          \* argument api_key
    url,              \* argument url
    sent,             \* the HTTP requests made so far
    ret,              \* what the caller returned
    context,          \* argument context of generate_response
    rune_string,      \* argument of parse_gl
    session_state,    \* st.session_state without error_log
    ui                \* position of the script: "idle", "rerun", "streaming",
                      \* "selecting", "rekeying"

vars == <<op, backend, net, pc, result, exc, reads, lines_processed, frags,
          error_log, retries, attempt, requests, sleeps, reachable,
          caller, api_key, url, sent, ret, context, rune_string, session_state, ui>>

genVars == <<reads, lines_processed, frags, error_log>>
probeVars == <<retries, attempt, requests, sleeps, reachable>>
\* what generate_response and probe_backend_url do not write: their
\* arguments, and the session state other than error_log
argVars == <<caller, api_key, url, context, rune_string, session_state, ui>>

----------------------------------------------------------------------------
(* Bounds of the model *)

MaxLines == 3

MaxRetries == 3

----------------------------------------------------------------------------
(* BACKEND_CONFIG *)

BACKEND_CONFIG == {"LM Studio", "Ollama", "Hugging Face"}

UnknownBackend == "vLLM"

\* BACKEND_CONFIG[b]["default_url"]
DefaultUrl(b) ==
    CASE b = "LM Studio" -> "http://127.0.0.1:1234/v1"
      [] b = "Ollama" -> "http://127.0.0.1:11434"
      [] b = "Hugging Face" -> "https://router.huggingface.co/novita/v3/openai/chat/completions"

\* BACKEND_CONFIG[b]["api_key"]
RequiresApiKey(b) == b = "Hugging Face"

\* a URL the user typed in place of the default one
CustomUrl == "http://192.168.1.20:8080"

----------------------------------------------------------------------------
(* JSON values, as json.loads returns them *)

StrC(s) == [p |-> "str", s |-> s]
AbsentC == [p |-> "absent", s |-> ""]

\* a JSON object that may hold "content": the value of "message" or of "delta"
ObjM(c) == [p |-> "object", content |-> c]
AbsentM == [p |-> "absent", content |-> AbsentC]
NullM == [p |-> "null", content |-> AbsentC]

ListCh(items) == [p |-> "list", items |-> items]
AbsentCh == [p |-> "absent", items |-> <<>>]

JObject(message, done, choices) ==
    [t |-> "object", message |-> message, done |-> done, choices |-> choices]
JArray == [t |-> "array", message |-> AbsentM, done |-> "absent", choices |-> AbsentCh]
JNone == [t |-> "none", message |-> AbsentM, done |-> "absent", choices |-> AbsentCh]

\* {"message": {"content": s}} and {"message": {"content": s}, "done": true}
OllamaChunk(s) == JObject(ObjM(StrC(s)), "absent", AbsentCh)
OllamaDone(s) == JObject(ObjM(StrC(s)), "true", AbsentCh)
\* {"choices": [{"delta": {"content": s}}]} and {"choices": [{"delta": {}}]}
SSEChunk(s) == JObject(AbsentM, "absent", ListCh(<<[delta |-> ObjM(StrC(s))]>>))
SSERoleChunk == JObject(AbsentM, "absent", ListCh(<<[delta |-> ObjM(AbsentC)]>>))

----------------------------------------------------------------------------
(* Body lines *)

Json(v) == [k |-> "json", v |-> v]
Blank == [k |-> "blank", v |-> JNone]
DoneMarker == [k |-> "[DONE]", v |-> JNone]
Garbage == [k |-> "garbage", v |-> JNone]

Line(pre, pay) == [utf8 |-> TRUE, lead |-> FALSE, pre |-> pre, pay |-> pay]
Indented(l) == [l EXCEPT !.lead = TRUE]
BadBytes == [utf8 |-> FALSE, lead |-> FALSE, pre |-> "", pay |-> Garbage]

\* what an Ollama server, or something in its place, may send
OllamaLines ==
    { Line("", Blank),
      Line("", Garbage),
      Line("", Json(OllamaChunk("Hi"))),
      Line("", Json(OllamaChunk(" there"))),
      Line("", Json(OllamaDone(" there"))),
      Line("", Json(OllamaDone(""))),
      Line("", Json(JObject(NullM, "absent", AbsentCh))),
      Line("", Json(JArray)),
      BadBytes }

\* what an SSE server, or something in its place, may send
SSELines ==
    { Line("", Blank),
      Line("data: ", Blank),
      Line("data: ", Json(SSEChunk("Hi"))),
      Line("data: ", Json(SSEChunk(" there"))),
      Line("data: ", Json(SSERoleChunk)),
      Line("data: ", DoneMarker),
      Line("data: ", Garbage),
      Line("data: ", Json(JObject(AbsentM, "absent", ListCh(<<>>)))),
      Indented(Line("data: ", Json(SSEChunk("Hi")))),
      BadBytes }

LinesOf(b) == IF b = "Ollama" THEN OllamaLines ELSE SSELines

SeqsUpTo(S, n) == UNION {[1..k -> S] : k \in 0..n}

----------------------------------------------------------------------------
(* Exceptions *)

NoExc == [cls |-> "none", msg |-> ""]
Exc(cls, msg) == [cls |-> cls, msg |-> msg]

\* classes derived from Exception that a call can meet
ExceptionClasses ==
    {"ClientError", "JSONDecodeError", "UnicodeDecodeError", "KeyError",
     "AttributeError", "IndexError", "TimeoutError", "TypeError"}

----------------------------------------------------------------------------
(* Text operations of the decode loop *)

\* str.strip() on the decoded line: leading white space goes, and so does the
\* space that ends a prefix with nothing after it
RStrip(pre) == IF pre = "data: " THEN "data:" ELSE pre
Strip(l) == [pre |-> IF l.pay.k = "blank" THEN RStrip(l.pre) ELSE l.pre, pay |-> l.pay]

\* not line_str
IsEmpty(text) == text.pre = "" /\ text.pay.k = "blank"

\* line_str.startswith("data: ")
StartsWithData(text) == text.pre = "data: "

\* line_str[len("data: "):].strip()
DataPart(text) == [pre |-> "", pay |-> text.pay]

\* json.loads: a value, or JSONDecodeError
Loads(text) ==
    IF text.pre = "" /\ text.pay.k = "json"
    THEN [ok |-> TRUE, v |-> text.pay.v]
    ELSE [ok |-> FALSE, v |-> JNone]

\* d.get("content", "") for a dict d, with None read as "" (only its truth is used)
GetContent(m) == IF m.p = "object" /\ m.content.p = "str" THEN m.content.s ELSE ""

\* str(n) for a natural number
Digit == <<"0", "1", "2", "3", "4", "5", "6", "7", "8", "9">>
RECURSIVE Str(_)
Str(n) == IF n < 10 THEN Digit[n + 1] ELSE Str(n \div 10) \o Digit[(n % 10) + 1]

----------------------------------------------------------------------------
(* What one line makes the decode loop do *)

Skip == [act |-> "skip", content |-> "", exc |-> NoExc]
\* a bug: the loop goes on where it should leave
BreakContinues == [act |-> "skip", content |-> "", exc |-> NoExc]

Break == [act |-> "break", content |-> "", exc |-> NoExc]
Yield(s) == [act |-> "yield", content |-> s, exc |-> NoExc]
YieldBreak(s) == [act |-> "yield_break", content |-> s, exc |-> NoExc]
Raise(e) == [act |-> "raise", content |-> "", exc |-> e]

\* a bug: the parse error is not caught in the loop
OnJSONDecodeErrorRaises == Raise(Exc("JSONDecodeError", "Expecting value"))

\* except json.JSONDecodeError: log a warning, continue
OnJSONDecodeError == Skip

\* a bug: a blank line taken for the end of the stream
OnBlankLineBreaks == Break

\* if not line_str: continue
OnBlankLine == Skip

\* a bug: the done flag tested before the content is yielded
OllamaStepDoneFirst(content, done) ==
    IF done THEN Break
    ELSE IF content # "" THEN Yield(content)
    ELSE Skip

\* if content: yield content; if chunk_json.get("done"): break
OllamaStep(content, done) ==
    IF content # "" /\ done THEN YieldBreak(content)
    ELSE IF content # "" THEN Yield(content)
    ELSE IF done THEN Break
    ELSE Skip

\* a bug: the terminal marker is not recognised
IsDoneSentinelNever(data_part) == FALSE

\* data_part == "[DONE]"
IsDoneSentinel(data_part) == data_part.pay.k = "[DONE]"

\* the Ollama branch of the loop body
DecodeOllama(line_str) ==
    IF IsEmpty(line_str) THEN OnBlankLine
    ELSE LET r == Loads(line_str)
             chunk_json == r.v
             content == GetContent(chunk_json.message)
             done == chunk_json.done = "true"
         IN  IF ~r.ok THEN OnJSONDecodeError
             ELSE IF chunk_json.t # "object"
                  THEN Raise(Exc("AttributeError", "object has no attribute 'get'"))
             ELSE IF chunk_json.message.p = "null"
                  THEN Raise(Exc("AttributeError", "'NoneType' object has no attribute 'get'"))
             ELSE OllamaStep(content, done)

\* the SSE branch of the loop body
DecodeSSE(line_str) ==
    IF ~StartsWithData(line_str) THEN Skip
    ELSE LET data_part == DataPart(line_str)
             r == Loads(data_part)
             chunk_json == r.v
             choices == chunk_json.choices
             delta == IF choices.p = "absent" THEN AbsentM ELSE choices.items[1].delta
             content == GetContent(delta)
         IN  IF IsDoneSentinel(data_part) THEN Break
             ELSE IF IsEmpty(data_part) THEN Skip
             ELSE IF ~r.ok THEN OnJSONDecodeError
             ELSE IF chunk_json.t # "object"
                  THEN Raise(Exc("AttributeError", "object has no attribute 'get'"))
             ELSE IF choices.p = "list" /\ choices.items = <<>>
                  THEN Raise(Exc("IndexError", "list index out of range"))
             ELSE IF delta.p = "null"
                  THEN Raise(Exc("AttributeError", "'NoneType' object has no attribute 'get'"))
             ELSE IF content # "" THEN Yield(content)
             ELSE Skip

\* line_bytes.decode('utf-8').strip(), then the branch of the backend
DecodeLine(b, line) ==
    IF ~line.utf8 THEN Raise(Exc("UnicodeDecodeError", "invalid start byte"))
    ELSE IF b = "Ollama" THEN DecodeOllama(Strip(line))
    ELSE DecodeSSE(Strip(line))

----------------------------------------------------------------------------
(* Fragments and log entries *)

ContentFragment(s) == <<s>>

EmptyResponse == <<"[Empty response]">>

ApiErrorMessage(status, error_text) ==
    <<"API Error: ", "Status ", Str(status), " - ", error_text>>

\* a bug: the body text put into the fragment
ProviderErrorFragmentWithBody(status, error_text) ==
    <<"API Error: ", "Status ", Str(status), " - ", error_text>>

\* the fragment of the non-200 branch; error_text is in scope and not used
ProviderErrorFragment(status, error_text) ==
    <<"Error from AI provider (", "Status ", Str(status), "). Check logs.">>

NetworkErrorMessage(e) == <<"Network error: ", e.msg>>
NetworkErrorFragment(e) == <<"Network error: ", e.msg, ". Please check connection.">>

JsonErrorMessage(e) == <<"JSON decoding error: ", e.msg>>
MalformedFragment == <<"Sophia received a malformed response.">>

UnexpectedErrorDetails(e) ==
    <<"Unhandled exception in generate_response: ", e.msg, "\nTraceback: ", e.cls>>
UnexpectedFragment ==
    <<"Sophia encountered an unexpected problem. Details have been logged.">>

\* a bug: no clause for aiohttp.ClientError
ExceptClauseNoNetwork(cls) ==
    CASE cls = "JSONDecodeError" -> "json"
      [] cls \in ExceptionClasses -> "generic"
      [] OTHER -> "uncaught"

\* a bug: no catch-all clause
ExceptClauseNoCatchAll(cls) ==
    CASE cls = "ClientError" -> "network"
      [] cls = "JSONDecodeError" -> "json"
      [] OTHER -> "uncaught"

\* the except clause of generate_response that takes an exception of class cls
ExceptClause(cls) ==
    CASE cls = "ClientError" -> "network"
      [] cls = "JSONDecodeError" -> "json"
      [] cls \in ExceptionClasses -> "generic"
      [] OTHER -> "uncaught"

LogEntry(h, e) ==
    CASE h = "network" -> NetworkErrorMessage(e)
      [] h = "json" -> JsonErrorMessage(e)
      [] OTHER -> UnexpectedErrorDetails(e)

ErrorFragment(h, e) ==
    CASE h = "network" -> NetworkErrorFragment(e)
      [] h = "json" -> MalformedFragment
      [] OTHER -> UnexpectedFragment

\* an exception e raised inside the try of generate_response
Handle(e) ==
    LET h == ExceptClause(e.cls)
    IN  /\ exc' = e
        /\ pc' = "done"
        /\ IF h = "uncaught"
           THEN /\ result' = "raised"
                /\ UNCHANGED <<frags, error_log>>
           ELSE /\ result' = "returned"
                /\ error_log' = Append(error_log, LogEntry(h, e))
                /\ frags' = Append(frags, ErrorFragment(h, e))

\* a bug: 201 read as a stream too
StatusOKOrCreated(status) == status \in {200, 201}

\* a bug: every 2xx status read as a stream
StatusOKAny2xx(status) == status \in 200..299

\* response.status == 200
StatusOK(status) == status = 200

\* a bug: the sentinel tied to the fragments yielded, not to the lines read
EmptyStreamNoFragment == frags = <<>>

\* a bug: the test inverted
EmptyStreamInverted == lines_processed # 0

\* lines_processed == 0
EmptyStream == lines_processed = 0

----------------------------------------------------------------------------
(* The server's script *)

MaxErrorLines == 1

StatusResult(n) == [kind |-> "status", status |-> n]
AttemptFails(cls) == [kind |-> cls, status |-> 0]

\* what one probe attempt can meet
ProbeOutcomes ==
    { StatusResult(200), StatusResult(201), StatusResult(204), StatusResult(404),
      AttemptFails("ClientError"), AttemptFails("TimeoutError") }

Script(connect, status, text, text_fails, body, tail, probe) ==
    [connect |-> connect, status |-> status, text |-> text, text_fails |-> text_fails,
     body |-> body, tail |-> tail, probe |-> probe]

NoScript == Script("ok", 0, "", FALSE, <<>>, "eof", <<>>)

\* the exchanges generate_response can meet with backend b
GenScripts(b) ==
    IF b \notin BACKEND_CONFIG THEN {NoScript}
    ELSE {Script(c, 0, "", FALSE, <<>>, "eof", <<>>) : c \in {"ClientError", "TimeoutError"}}
         \cup {Script("ok", 200, "", FALSE, body, tail, <<>>) :
                 body \in SeqsUpTo(LinesOf(b), MaxLines),
                 tail \in {"eof", "ClientError", "TimeoutError"}}
         \cup {Script("ok", st, "model not found", tf, body, "eof", <<>>) :
                 st \in {201, 404}, tf \in BOOLEAN,
                 body \in SeqsUpTo(LinesOf(b), MaxErrorLines)}

\* the exchanges probe_backend_url can meet when it may try n times
ProbeScripts(n) ==
    {Script("ok", 0, "", FALSE, <<>>, "eof", probe) : probe \in [1..n -> ProbeOutcomes]}

----------------------------------------------------------------------------
(* st.session_state *)

\* an optional value: None, or a value
None == <<>>
Some(v) == <<v>>

\* the truth value of an optional string
Truthy(o) == o # None /\ o[1] # ""

\* lines 55-73: the defaults of the session (error_log is the variable of
\* that name; the api_key default is the environment's HF_TOKEN)
Defaults ==
    [messages |-> <<>>,
     memory_db |-> <<>>,
     selected_backend |-> None,
     backend_url |-> "",
     api_key |-> "",
     available_models |-> <<>>,
     selected_model |-> None,
     input_submitted |-> FALSE,
     last_input |-> None]

\* a turn of the transcript, st.session_state.messages[i]
Message(role, content) == [role |-> role, content |-> content]

\* line 575: the item of the context made of a turn; it has no image
ContextItem(m) == [role |-> m.role, content |-> m.content, image_data |-> FALSE]

\* line 587: the item of an uploaded image; image_data holds PNG bytes
ImageItem == [role |-> "user", content |-> "Image uploaded", image_data |-> TRUE]

----------------------------------------------------------------------------
(* What a caller returns *)

NotReturned == [t |-> "unset", v |-> <<>>]
PyNone == [t |-> "None", v |-> <<>>]
PyStr(text) == [t |-> "str", v |-> text]
PyDict(d) == [t |-> "dict", v |-> d]

----------------------------------------------------------------------------
(* Initial state: the call is made *)

InitGenerate ==
    /\ op = "generate"
    /\ backend \in BACKEND_CONFIG \cup {UnknownBackend}
    /\ net \in GenScripts(backend)
    /\ retries = 0

InitProbe ==
    /\ op = "probe"
    /\ backend \in {"Ollama", "Hugging Face"}
    /\ retries \in 0..MaxRetries
    /\ net \in ProbeScripts(retries)

\* nothing has happened yet
InitLocals ==
    /\ pc = "start"
    /\ result = "running"
    /\ exc = NoExc
    /\ reads = 0
    /\ lines_processed = 0
    /\ frags = <<>>
    /\ error_log = <<>>
    /\ attempt = 0
    /\ requests = 0
    /\ sleeps = 0
    /\ reachable = "unset"
    /\ sent = <<>>
    /\ ret = NotReturned

\* a call made outside the script: a fresh session, no history
InitNoScript ==
    /\ context = <<>>
    /\ rune_string = ""
    /\ session_state = Defaults
    /\ ui = "idle"

\* a direct call of generate_response or of probe_backend_url, without a key
Init ==
    /\ InitGenerate \/ InitProbe
    /\ InitLocals
    /\ InitNoScript
    /\ caller = "direct"
    /\ api_key = ""
    /\ url = IF backend \in BACKEND_CONFIG THEN DefaultUrl(backend) ELSE CustomUrl

----------------------------------------------------------------------------
(* The requests of both functions *)

\* an HTTP request: the method, the URL and the Authorization header ("" when
\* the headers hold none)
Request(method, endpoint, authorization) ==
    [method |-> method, endpoint |-> endpoint, authorization |-> authorization]

\* a bug: the key is sent to every backend
AuthHeaderAlways(b, key) == IF key # "" THEN "Bearer " \o key ELSE ""

\* if api_key and backend == "Hugging Face": headers["Authorization"] = f"Bearer {api_key}"
AuthHeader(b, key) == IF key # "" /\ b = "Hugging Face" THEN "Bearer " \o key ELSE ""

\* a bug: the path is appended for every backend that is not Ollama
ChatEndpointAlwaysAppends(b, u) ==
    IF b = "Ollama" THEN u \o "/api/chat" ELSE u \o "/chat/completions"

\* the endpoint of the chat request
ChatEndpoint(b, u) ==
    IF b = "Ollama" THEN u \o "/api/chat"
    ELSE IF b = "Hugging Face" THEN u
    ELSE u \o "/chat/completions"

\* session.post for Hugging Face, session.get for the others
ProbeMethod(b) == IF b = "Hugging Face" THEN "POST" ELSE "GET"

----------------------------------------------------------------------------
(* generate_response *)

\* lines 198-226: headers, BACKEND_CONFIG[backend]["max_tokens"], payload, endpoint
BuildRequest ==
    /\ op = "generate" /\ pc = "start"
    /\ IF backend \in BACKEND_CONFIG
       THEN /\ pc' = "post"
            /\ UNCHANGED <<result, exc, frags, error_log>>
       ELSE Handle(Exc("KeyError", backend))
    /\ UNCHANGED <<op, backend, net, reads, lines_processed>>
    /\ UNCHANGED probeVars
    /\ UNCHANGED <<argVars, sent, ret>>

\* json=payload: the payload is serialised before the connection is made, and
\* the bytes of an image item make json.dumps raise TypeError
Serializable(messages) == \A i \in 1..Len(messages) : ~messages[i].image_data

\* lines 228-231 and 276-286: the POST, the status test, the non-200 branch
Post ==
    /\ op = "generate" /\ pc = "post"
    /\ IF ~Serializable(context)
       THEN Handle(Exc("TypeError", "Object of type bytes is not JSON serializable"))
       ELSE IF net.connect # "ok"
       THEN Handle(Exc(net.connect, "Cannot connect to host"))
       ELSE IF StatusOK(net.status)
       THEN /\ pc' = "reading"
            /\ UNCHANGED <<result, exc, frags, error_log>>
       ELSE LET error_text == IF net.text_fails THEN "" ELSE net.text
            IN  /\ error_log' = Append(error_log, ApiErrorMessage(net.status, error_text))
                /\ frags' = Append(frags, ProviderErrorFragment(net.status, error_text))
                /\ pc' = "done"
                /\ result' = "returned"
                /\ UNCHANGED exc
    /\ UNCHANGED <<op, backend, net, reads, lines_processed>>
    /\ UNCHANGED probeVars
    /\ sent' = IF Serializable(context)
               THEN Append(sent, Request("POST", ChatEndpoint(backend, url),
                                         AuthHeader(backend, api_key)))
               ELSE sent
    /\ UNCHANGED <<argVars, ret>>

\* line 235: what readline returns: the next line of the body, or no bytes
\* (which decode to the empty string) once the body has ended
Readline ==
    IF reads >= Len(net.body)
    THEN [bytes |-> FALSE, line |-> Line("", Blank)]
    ELSE [bytes |-> TRUE, line |-> net.body[reads + 1]]

\* a bug: the end of the body is not noticed
EndOfStreamNever(line_bytes) == FALSE

\* if not line_bytes: break
EndOfStream(line_bytes) == ~line_bytes.bytes

\* lines 234-271: one pass of the while loop
ReadLine ==
    /\ op = "generate" /\ pc = "reading"
    /\ reads' = reads + 1
    /\ IF reads >= Len(net.body) /\ net.tail # "eof"
       THEN /\ UNCHANGED lines_processed
            /\ Handle(Exc(net.tail, "Connection reset"))
       ELSE IF EndOfStream(Readline)
       THEN /\ pc' = "finish"
            /\ UNCHANGED <<lines_processed, result, exc, frags, error_log>>
       ELSE LET d == DecodeLine(backend, Readline.line)
            IN  /\ lines_processed' = lines_processed + 1
                /\ IF d.act = "raise"
                   THEN Handle(d.exc)
                   ELSE /\ pc' = IF d.act \in {"break", "yield_break"}
                                 THEN "finish" ELSE "reading"
                        /\ frags' = IF d.act \in {"yield", "yield_break"}
                                    THEN Append(frags, ContentFragment(d.content))
                                    ELSE frags
                        /\ UNCHANGED <<result, exc, error_log>>
    /\ UNCHANGED <<op, backend, net>>
    /\ UNCHANGED probeVars
    /\ UNCHANGED <<argVars, sent, ret>>

\* a bug: the empty stream is written to error_log
FinishStreamLogsEmpty ==
    /\ op = "generate" /\ pc = "finish"
    /\ frags' = IF EmptyStream THEN Append(frags, EmptyResponse) ELSE frags
    /\ error_log' = IF EmptyStream THEN Append(error_log, <<"Stream was empty">>)
                    ELSE error_log
    /\ pc' = "done"
    /\ result' = "returned"
    /\ UNCHANGED <<op, backend, net, exc, reads, lines_processed>>
    /\ UNCHANGED probeVars
    /\ UNCHANGED <<argVars, sent, ret>>

\* lines 272-275: after the loop
FinishStream ==
    /\ op = "generate" /\ pc = "finish"
    /\ frags' = IF EmptyStream THEN Append(frags, EmptyResponse) ELSE frags
    /\ pc' = "done"
    /\ result' = "returned"
    /\ UNCHANGED <<op, backend, net, exc, reads, lines_processed, error_log>>
    /\ UNCHANGED probeVars
    /\ UNCHANGED <<argVars, sent, ret>>

----------------------------------------------------------------------------
(* probe_backend_url *)

\* a bug: every 2xx status taken for success
ProbeSuccessAny2xx(status) == status \in 200..299

\* response.status in [200, 201]
ProbeSuccess(status) == status \in {200, 201}

\* a bug: every exception is retried
ProbeExceptClauseRetriesAll(cls) == IF cls \in ExceptionClasses THEN "attempt" ELSE "uncaught"

\* a bug: a connection error ends the probe
ProbeExceptClauseAborts(cls) == IF cls \in ExceptionClasses THEN "outer" ELSE "uncaught"

\* the except clause of probe_backend_url that takes an exception of class cls:
\* the one inside the loop, or the one around the session
ProbeExceptClause(cls) ==
    CASE cls = "ClientError" -> "attempt"
      [] cls \in ExceptionClasses -> "outer"
      [] OTHER -> "uncaught"

\* lines 81-93: headers, the session, the payload
ProbeOpen ==
    /\ op = "probe" /\ pc = "start"
    /\ pc' = "loop"
    /\ UNCHANGED <<op, backend, net, result, exc>>
    /\ UNCHANGED genVars
    /\ UNCHANGED probeVars
    /\ UNCHANGED <<argVars, sent, ret>>

\* lines 94-103 and 107-116: one attempt of the for loop
ProbeAttempt ==
    /\ op = "probe" /\ pc = "loop" /\ attempt < retries
    /\ requests' = requests + 1
    /\ LET r == net.probe[attempt + 1]
           h == ProbeExceptClause(r.kind)
       IN  IF r.kind = "status"
           THEN IF ProbeSuccess(r.status)
                THEN /\ reachable' = "true"
                     /\ pc' = "done"
                     /\ result' = "returned"
                     /\ UNCHANGED <<attempt, exc>>
                ELSE /\ attempt' = attempt + 1
                     /\ UNCHANGED <<reachable, pc, result, exc>>
           ELSE /\ exc' = Exc(r.kind, "probe failed")
                /\ IF h = "attempt"
                   THEN /\ IF attempt < retries - 1
                           THEN pc' = "sleep" /\ UNCHANGED attempt
                           ELSE pc' = "loop" /\ attempt' = attempt + 1
                        /\ UNCHANGED <<reachable, result>>
                   ELSE IF h = "outer"
                   THEN /\ reachable' = "false"
                        /\ pc' = "done"
                        /\ result' = "returned"
                        /\ UNCHANGED attempt
                   ELSE /\ pc' = "done"
                        /\ result' = "raised"
                        /\ UNCHANGED <<reachable, attempt>>
    /\ UNCHANGED <<op, backend, net, retries, sleeps>>
    /\ UNCHANGED genVars
    /\ sent' = Append(sent, Request(ProbeMethod(backend), url, AuthHeader(backend, api_key)))
    /\ UNCHANGED <<argVars, ret>>

\* lines 104 and 117: await asyncio.sleep(1)
ProbeSleep ==
    /\ op = "probe" /\ pc = "sleep"
    /\ sleeps' = sleeps + 1
    /\ attempt' = attempt + 1
    /\ pc' = "loop"
    /\ UNCHANGED <<op, backend, net, result, exc, retries, requests, reachable>>
    /\ UNCHANGED genVars
    /\ UNCHANGED <<argVars, sent, ret>>

\* line 120: the loop ran out
ProbeExhausted ==
    /\ op = "probe" /\ pc = "loop" /\ attempt >= retries
    /\ reachable' = "false"
    /\ pc' = "done"
    /\ result' = "returned"
    /\ UNCHANGED <<op, backend, net, exc, retries, attempt, requests, sleeps>>
    /\ UNCHANGED genVars
    /\ UNCHANGED <<argVars, sent, ret>>

----------------------------------------------------------------------------

Next ==
    \/ BuildRequest
    \/ Post
    \/ ReadLine
    \/ FinishStream
    \/ ProbeOpen
    \/ ProbeAttempt
    \/ ProbeSleep
    \/ ProbeExhausted

Spec == Init /\ [][Next]_vars

\* the longest body of the calls followed to their end under fairness
MaxFairLines == 2

FairInit == Init /\ (op = "generate" => Len(net.body) <= MaxFairLines)

\* a call that can take a step takes one: the event loop runs the coroutine
\* until it returns
FairSpec == FairInit /\ [][Next]_vars /\ WF_vars(Next)

----------------------------------------------------------------------------
(* test_model and auto_detect_endpoint *)

\* "".join of the pieces of one fragment, and of the fragments
RECURSIVE JoinPieces(_)
JoinPieces(pieces) ==
    IF pieces = <<>> THEN "" ELSE Head(pieces) \o JoinPieces(Tail(pieces))
RECURSIVE Join(_)
Join(response_content) ==
    IF response_content = <<>> THEN ""
    ELSE JoinPieces(Head(response_content)) \o Join(Tail(response_content))

\* sub in text
Contains(text, sub) ==
    \E i \in 1..(Len(text) - Len(sub) + 1) : SubSeq(text, i, i + Len(sub) - 1) = sub

\* "Error" in full_response
ShowsError(full_response) == Contains(full_response, "Error")

\* lines 351-353: the status test_model gives a reply
TestStatus(full_response) ==
    LET status == IF ~ShowsError(full_response) /\ full_response # ""
                  THEN "SUCCESS" ELSE "FAIL"
    IN  IF full_response = "" /\ status = "SUCCESS" THEN "EMPTY_SUCCESS" ELSE status

\* lines 345-360: test_model has consumed the generator and returns
TestModelReturn ==
    /\ caller = "test_model" /\ op = "generate" /\ pc = "done"
    /\ ret.t = "unset"
    /\ LET full_response == Join(frags)
       IN  ret' = IF result = "raised"
                  THEN PyDict([status |-> "ERROR", response |-> full_response])
                  ELSE PyDict([status |-> TestStatus(full_response),
                               response |-> IF full_response # "" THEN full_response
                                            ELSE "No content received."])
    /\ UNCHANGED <<op, backend, net, pc, result, exc>>
    /\ UNCHANGED genVars
    /\ UNCHANGED probeVars
    /\ UNCHANGED <<argVars, sent>>

\* the default of probe_backend_url's parameter retries
DefaultRetries == 3

\* a bug: the default URL whatever the probe found
DetectResultAlwaysDefault(default_url, probed) == PyStr(default_url)

\* lines 141-145: the default URL when it is set and the probe succeeded, else None
DetectResult(default_url, probed) ==
    IF default_url # "" /\ probed THEN PyStr(default_url) ELSE PyNone

\* lines 139-145: auto_detect_endpoint returns after its probe
AutoDetectReturn ==
    /\ caller = "auto_detect_endpoint" /\ op = "probe" /\ pc = "done"
    /\ result = "returned"
    /\ ret.t = "unset"
    /\ ret' = DetectResult(DefaultUrl(backend), reachable = "true")
    /\ UNCHANGED <<op, backend, net, pc, result, exc>>
    /\ UNCHANGED genVars
    /\ UNCHANGED probeVars
    /\ UNCHANGED <<argVars, sent>>

\* the longest body of the calls made with a key, a typed URL or a wrapper
MaxCallerLines == 1

\* the exchanges of those calls: the server may speak either protocol
CallerScripts ==
    {Script(c, 0, "", FALSE, <<>>, "eof", <<>>) : c \in {"ClientError", "TimeoutError"}}
    \cup {Script("ok", 200, "", FALSE, body, tail, <<>>) :
            body \in SeqsUpTo(OllamaLines \cup SSELines, MaxCallerLines),
            tail \in {"eof", "ClientError", "TimeoutError"}}
    \cup {Script("ok", st, "model not found", tf, <<>>, "eof", <<>>) :
            st \in {201, 404}, tf \in BOOLEAN}

\* generate_response called directly or by test_model
InitChat ==
    /\ op = "generate"
    /\ caller \in {"direct", "test_model"}
    /\ backend \in BACKEND_CONFIG \cup {UnknownBackend}
    /\ net \in IF backend \in BACKEND_CONFIG THEN CallerScripts ELSE {NoScript}
    /\ url \in (IF backend \in BACKEND_CONFIG THEN {DefaultUrl(backend)} ELSE {})
                \cup {CustomUrl}
    /\ retries = 0

\* probe_backend_url called directly or by auto_detect_endpoint, with the
\* default number of attempts
InitDetect ==
    /\ op = "probe"
    /\ caller \in {"direct", "auto_detect_endpoint"}
    /\ backend \in BACKEND_CONFIG
    /\ url \in IF caller = "direct" THEN {DefaultUrl(backend), CustomUrl}
                ELSE {DefaultUrl(backend)}
    /\ retries = DefaultRetries
    /\ net \in ProbeScripts(retries)

CallerInit ==
    /\ InitChat \/ InitDetect
    /\ InitLocals
    /\ InitNoScript
    /\ api_key \in {"", "hf_secret"}

CallerNext ==
    \/ BuildRequest
    \/ Post
    \/ ReadLine
    \/ FinishStream
    \/ ProbeOpen
    \/ ProbeAttempt
    \/ ProbeSleep
    \/ ProbeExhausted
    \/ TestModelReturn
    \/ AutoDetectReturn

CallerSpec == CallerInit /\ [][CallerNext]_vars

----------------------------------------------------------------------------
(* parse_gl and simulate_ruft.  Numbers are counted in tenths: 10 is 1.0 *)

\* the keys of RUNE_DICT
RUNE_DICT == {"ᚲ", "ᛚ", "ᛞ"}

\* RUNE_DICT[rune]; param None when the entry has no 'param', script empty
\* when it has no 'script'
RuneInfo(rune) ==
    CASE rune = "ᚲ" -> [name |-> "EXCITE", param |-> Some("g_EM"), script |-> <<>>,
                        value |-> 10, function_call |-> FALSE]
      [] rune = "ᛚ" -> [name |-> "COHERE", param |-> Some("coherence"), script |-> <<>>,
                        value |-> 9, function_call |-> FALSE]
      [] rune = "ᛞ" -> [name |-> "VITALIZE", param |-> None, script |-> <<"ᛚ", "ᚢ">>,
                        value |-> 10, function_call |-> TRUE]

\* a number of tenths as Python prints the float
Tenths(n) == Str(n \div 10) \o "." \o Str(n % 10)

\* params = {'g_EM': 0.0, 'coherence': 0.0, 'zeta': 0.0, 'notes': []}
NewParams == [g_EM |-> 0, coherence |-> 0, zeta |-> 0, notes |-> <<>>, raised |-> ""]

\* a bug: the value replaces the parameter
AddParamOverwrites(params, key, value) ==
    CASE key = "g_EM" -> [params EXCEPT !.g_EM = value]
      [] key = "coherence" -> [params EXCEPT !.coherence = value]
      [] key = "zeta" -> [params EXCEPT !.zeta = value]

\* params[key] += value
AddParam(params, key, value) ==
    CASE key = "g_EM" -> [params EXCEPT !.g_EM = @ + value]
      [] key = "coherence" -> [params EXCEPT !.coherence = @ + value]
      [] key = "zeta" -> [params EXCEPT !.zeta = @ + value]

\* lines 175-177: the runes of a script; a rune of RUNE_DICT without 'param'
\* raises KeyError
RECURSIVE ApplyScript(_, _)
ApplyScript(params, script) ==
    IF script = <<>> \/ params.raised # "" THEN params
    ELSE LET sub_rune == Head(script)
         IN  IF sub_rune \notin RUNE_DICT THEN ApplyScript(params, Tail(script))
             ELSE IF RuneInfo(sub_rune).param = None
                  THEN [params EXCEPT !.raised = "KeyError"]
             ELSE ApplyScript(AddParam(params, RuneInfo(sub_rune).param[1],
                                       RuneInfo(sub_rune).value),
                              Tail(script))

\* f"Applied {rune_info['name']}: {rune_info.get('value', 0)}"
Note(rune_info) == "Applied " \o rune_info.name \o ": " \o Tenths(rune_info.value)

\* lines 171-180: one character of the string
ApplyRune(params, rune) ==
    IF rune \notin RUNE_DICT THEN params
    ELSE LET rune_info == RuneInfo(rune)
             p1 == IF rune_info.param # None
                   THEN AddParam(params, rune_info.param[1], rune_info.value)
                   ELSE params
             p2 == ApplyScript(p1, rune_info.script)
         IN  IF p2.raised # "" THEN p2
             ELSE [p2 EXCEPT !.notes = Append(@, Note(rune_info))]

\* lines 169-180: the loop over the characters of rune_string
RECURSIVE ApplyRunes(_, _)
ApplyRunes(params, text) ==
    IF text = "" \/ params.raised # "" THEN params
    ELSE ApplyRunes(ApplyRune(params, SubSeq(text, 1, 1)), SubSeq(text, 2, Len(text)))

\* function_call after the loop: some rune of the string asks for it
FunctionCall(text) ==
    \E i \in 1..Len(text) :
        /\ SubSeq(text, i, i) \in RUNE_DICT
        /\ RuneInfo(SubSeq(text, i, i)).function_call

\* simulate_ruft: stability is the quotient coherence / (1 + g_EM), kept as
\* the pair of its terms; phi_field holds sin of each x * g_EM
simulate_ruft(params) ==
    IF 10 + params.g_EM = 0
    THEN [status |-> "ERROR", error |-> "float division by zero"]
    ELSE [stability |-> [num |-> params.coherence, den |-> 10 + params.g_EM],
          phi_field |-> [x \in 1..10 |-> [sin |-> (x - 1) * params.g_EM]],
          log |-> <<"Coherence: ", Tenths(params.coherence), "0", ", g_EM: ",
                    Tenths(params.g_EM), "0">>]

\* parse_gl
parse_gl(text) ==
    LET params == ApplyRunes(NewParams, text)
    IN  IF params.raised # ""
        THEN [status |-> "ERROR", error |-> params.raised]
        ELSE [status |-> "SUCCESS",
              params |-> [g_EM |-> params.g_EM, coherence |-> params.coherence,
                          zeta |-> params.zeta, notes |-> params.notes],
              simulation |-> simulate_ruft(params),
              function_call |-> IF FunctionCall(text)
                                THEN Some("vitalize_action") ELSE None]

\* the longest string given to parse_gl
MaxRunes == 3

\* the characters of those strings: the three runes of RUNE_DICT, a rune
\* outside it and an ordinary letter
RuneAlphabet == {"ᚲ", "ᛚ", "ᛞ", "ᚢ", "a"}

RECURSIVE StringsUpTo(_, _)
StringsUpTo(S, n) ==
    IF n = 0 THEN {""}
    ELSE LET shorter == StringsUpTo(S, n - 1)
         IN  shorter \cup {t \o c : t \in shorter, c \in S}

ParseInit ==
    /\ op = "parse_gl"
    /\ rune_string \in StringsUpTo(RuneAlphabet, MaxRunes)
    /\ backend = "none"
    /\ net = NoScript
    /\ retries = 0
    /\ caller = "direct"
    /\ api_key = ""
    /\ url = ""
    /\ context = <<>>
    /\ session_state = Defaults
    /\ ui = "idle"
    /\ InitLocals

\* the call of parse_gl
ParseGlCall ==
    /\ op = "parse_gl" /\ pc = "start"
    /\ ret' = PyDict(parse_gl(rune_string))
    /\ pc' = "done"
    /\ result' = "returned"
    /\ UNCHANGED <<op, backend, net, exc, sent>>
    /\ UNCHANGED genVars
    /\ UNCHANGED probeVars
    /\ UNCHANGED argVars

ParseNext == ParseGlCall

ParseSpec == ParseInit /\ [][ParseNext]_vars

----------------------------------------------------------------------------
(* Vocabulary of the properties: what the lines of a body say, read off the *)
(* lines themselves                                                         *)

Streaming200 ==
    /\ op = "generate"
    /\ backend \in BACKEND_CONFIG
    /\ net.connect = "ok"
    /\ net.status = 200

Last(s) == s[Len(s)]
Front(s) == SubSeq(s, 1, Len(s) - 1)

\* a line {"message": {"content": <string>}, ...}
NDJSONContentLine(l) ==
    /\ l.utf8 /\ l.pre = "" /\ l.pay.k = "json"
    /\ l.pay.v.t = "object"
    /\ l.pay.v.message.p = "object"
    /\ l.pay.v.message.content.p = "str"

NDJSONDoneLine(l) == l.pay.v.done = "true"

\* a line data: {"choices": [{"delta": {...}}]}
SSEContentLine(l) ==
    /\ l.utf8 /\ ~l.lead /\ l.pre = "data: " /\ l.pay.k = "json"
    /\ l.pay.v.t = "object"
    /\ l.pay.v.choices.p = "list"
    /\ l.pay.v.choices.items # <<>>
    /\ l.pay.v.choices.items[1].delta.p = "object"

\* the line data: [DONE]
SSEDoneLine(l) == l.utf8 /\ ~l.lead /\ l.pre = "data: " /\ l.pay.k = "[DONE]"

\* the content a content line of backend b carries
ContentOf(b, l) ==
    LET c == IF b = "Ollama" THEN l.pay.v.message.content
             ELSE l.pay.v.choices.items[1].delta.content
    IN  IF c.p = "str" THEN c.s ELSE ""

\* the non-empty contents of content lines, in order, one fragment each
RECURSIVE ContentsOf(_, _)
ContentsOf(b, lines) ==
    IF lines = <<>> THEN <<>>
    ELSE (IF lines[1].pay.k = "json" /\ ContentOf(b, lines[1]) # ""
          THEN << <<ContentOf(b, lines[1])>> >> ELSE <<>>)
         \o ContentsOf(b, Tail(lines))

\* lines 1..k of the body are a well-formed NDJSON stream, done on line k only
WellFormedNDJSON(k) ==
    /\ k \in 1..Len(net.body)
    /\ \A i \in 1..k :
         /\ NDJSONContentLine(net.body[i])
         /\ NDJSONDoneLine(net.body[i]) <=> i = k

\* lines 1..k of the body are a well-formed SSE stream, data: [DONE] on line k
WellFormedSSE(k) ==
    /\ k \in 1..Len(net.body)
    /\ \A i \in 1..(k - 1) : SSEContentLine(net.body[i])
    /\ SSEDoneLine(net.body[k])

----------------------------------------------------------------------------
(* C1: Ollama, status 200, a body whose lines up to the first done line are *)
(* well-formed content objects: at every moment the fragments yielded are   *)
(* the non-empty message.content values of the lines read, in order, one    *)
(* fragment each; no line after the done line is read; the call ends at the *)
(* done line with no sentinel, no error fragment and nothing logged.        *)
C1_NDJSONStream ==
    (Streaming200 /\ backend = "Ollama") =>
        \A k \in 1..Len(net.body) :
            WellFormedNDJSON(k) =>
                /\ reads <= k
                /\ frags = ContentsOf(backend, SubSeq(net.body, 1, reads))
                /\ pc \in {"finish", "done"} => reads = k
                /\ pc = "done" => result = "returned" /\ exc = NoExc
                /\ error_log = <<>>

C1_Witness ==
    /\ Streaming200 /\ backend = "Ollama"
    /\ Len(net.body) = 3 /\ WellFormedNDJSON(3)
    /\ pc = "done"
    /\ frags = << <<"Hi">>, <<" there">>, <<" there">> >>

(* C2: LM Studio and Hugging Face, status 200, a body whose lines up to the *)
(* first data: [DONE] are well-formed data lines: the fragments yielded are *)
(* the non-empty choices[0].delta.content values of the lines read, in      *)
(* order; the [DONE] line yields nothing, no line after it is read, and the *)
(* call ends there.                                                         *)
C2_SSEStream ==
    (Streaming200 /\ backend # "Ollama") =>
        \A k \in 1..Len(net.body) :
            WellFormedSSE(k) =>
                /\ reads <= k
                /\ frags = ContentsOf(backend, SubSeq(net.body, 1, reads))
                /\ pc \in {"finish", "done"} => reads = k
                /\ pc = "done" => result = "returned" /\ exc = NoExc
                /\ error_log = <<>>

C2_Witness ==
    /\ Streaming200 /\ backend = "Hugging Face"
    /\ Len(net.body) = 3 /\ WellFormedSSE(3)
    /\ pc = "done"
    /\ frags = << <<"Hi">>, <<" there">> >>

(* C3 as claimed: every finished call of generate_response has yielded at   *)
(* least one fragment.                                                      *)
C3_AlwaysAFragment ==
    (op = "generate" /\ pc = "done") => Len(frags) >= 1

\* the lines read whose decoding yields a fragment
YieldingLines ==
    {i \in 1..lines_processed :
        DecodeLine(backend, net.body[i]).act \in {"yield", "yield_break"}}

(* C3 amended: a 200 response that ends without an exception yields the    *)
(* sentinel exactly when no line was read before the end of the body, and   *)
(* then it is the only fragment; when at least one line was read the        *)
(* fragments are the content fragments alone, none at all when no line      *)
(* carried content.                                                         *)
C3_SentinelOnlyWhenNoLineRead ==
    (Streaming200 /\ pc = "done" /\ exc = NoExc) =>
        /\ lines_processed = 0 => frags = << <<"[Empty response]">> >>
        /\ lines_processed > 0 =>
             /\ \A i \in 1..Len(frags) : frags[i] # <<"[Empty response]">>
             /\ Len(frags) = Cardinality(YieldingLines)

C3_Witness ==
    /\ Streaming200 /\ pc = "done" /\ exc = NoExc
    /\ lines_processed = 1
    /\ net.body[1].pay.k = "blank"
    /\ frags = <<>>

----------------------------------------------------------------------------
\* the line the next readline() returns, when the body still holds one
AtLine == op = "generate" /\ pc = "reading" /\ reads < Len(net.body)
NextLine == net.body[reads + 1]

\* a blank line: nothing, or white space only
BlankLine(l) == l.utf8 /\ l.pre = "" /\ l.pay.k = "blank"

\* the line as received does not start with "data: "
RawNonDataLine(l) == l.utf8 /\ (l.lead \/ l.pre # "data: ")

\* the line with the white space around it removed does not start with "data: "
TrimmedNonDataLine(l) == l.utf8 /\ (l.pre # "data: " \/ l.pay.k = "blank")

\* reading the line leaves the fragments, the log and the loop as they were
LineIsInert ==
    /\ frags' = frags
    /\ error_log' = error_log
    /\ pc' = "reading"
    /\ result' = "running"

(* C4 as claimed: a blank line (Ollama), or a line that does not start with *)
(* "data: " (SSE backends), read at any point of the loop, changes neither  *)
(* the fragments yielded nor the loop's being in progress.                  *)
C4_RawNoiseIsInert ==
    [][ (AtLine /\ Streaming200 /\
           IF backend = "Ollama" THEN BlankLine(NextLine) ELSE RawNonDataLine(NextLine))
        => LineIsInert ]_vars

(* C4 amended: a blank line (Ollama), or a line that after removal of the   *)
(* white space around it does not start with "data: " (SSE backends), read  *)
(* at any point of the loop, changes neither the fragments yielded nor the  *)
(* loop's being in progress.                                                *)
C4_TrimmedNoiseIsInert ==
    [][ (AtLine /\ Streaming200 /\
           IF backend = "Ollama" THEN BlankLine(NextLine) ELSE TrimmedNonDataLine(NextLine))
        => LineIsInert ]_vars

\* a noise line was read between two content lines, and both fragments came
C4_Witness ==
    /\ Streaming200 /\ pc = "done"
    /\ Len(net.body) = 3 /\ net.tail = "eof"
    /\ net.body[2].pay.k = "blank"
    /\ frags = << <<"Hi">>, <<" there">> >>

\* a line whose payload is not JSON, in the framing of backend b
MalformedLine(b, l) ==
    /\ l.utf8 /\ l.pay.k = "garbage"
    /\ l.pre = (IF b = "Ollama" THEN "" ELSE "data: ")

\* a content line of backend b that carries text
ValidLine(b, l) ==
    /\ IF b = "Ollama" THEN NDJSONContentLine(l) ELSE SSEContentLine(l)
    /\ ContentOf(b, l) # ""

\* the body starts: valid line, malformed line, valid line
ValidMalformedValid ==
    /\ Streaming200
    /\ Len(net.body) >= 3
    /\ ValidLine(backend, net.body[1])
    /\ backend = "Ollama" => ~NDJSONDoneLine(net.body[1])
    /\ MalformedLine(backend, net.body[2])
    /\ ValidLine(backend, net.body[3])

(* C5: a malformed JSON line between two valid content lines is skipped:    *)
(* the loop does not end at it, and when the three lines are read exactly   *)
(* the two valid fragments have been yielded, in order, with no error       *)
(* fragment, no exception and nothing appended to error_log; a body of just *)
(* these three lines ends with those two fragments.                         *)
C5_MalformedLineSkipped ==
    ValidMalformedValid =>
        /\ pc \in {"finish", "done"} => reads >= 3
        /\ reads = 3 =>
             /\ frags = << <<ContentOf(backend, net.body[1])>>,
                           <<ContentOf(backend, net.body[3])>> >>
             /\ error_log = <<>>
             /\ exc = NoExc
             /\ result # "raised"
        /\ (Len(net.body) = 3 /\ net.tail = "eof" /\ pc = "done") =>
             /\ frags = << <<ContentOf(backend, net.body[1])>>,
                           <<ContentOf(backend, net.body[3])>> >>
             /\ error_log = <<>>
             /\ result = "returned"

C5_Witness ==
    /\ ValidMalformedValid
    /\ backend = "LM Studio"
    /\ Len(net.body) = 3 /\ net.tail = "eof"
    /\ pc = "done"
    /\ Len(frags) = 2

\* the status was received and is not 200
NonSuccess ==
    /\ op = "generate"
    /\ backend \in BACKEND_CONFIG
    /\ net.connect = "ok"
    /\ net.status # 200

\* the text "Status <c>" occurs in the fragment
HasStatusText(frag, c) ==
    \E i \in 1..(Len(frag) - 1) : frag[i] = "Status " /\ frag[i + 1] = Str(c)

(* C6: on a status c other than 200 no line of the body is ever read, and   *)
(* the call ends having yielded exactly one fragment, which holds the text  *)
(* "Status c".                                                              *)
C6_NonSuccessOneFragment ==
    NonSuccess =>
        /\ reads = 0 /\ lines_processed = 0
        /\ pc \notin {"reading", "finish"}
        /\ pc = "done" =>
             /\ Len(frags) = 1
             /\ HasStatusText(frags[1], net.status)
             /\ result = "returned"

C6_Witness ==
    /\ NonSuccess /\ net.status = 404
    /\ net.body # <<>>
    /\ pc = "done"
    /\ Len(frags) = 1

(* C7 as claimed: on a non-success status whose body text was read, the     *)
(* fragment yielded is "API Error: Status <code> - <body>" and error_log    *)
(* holds that same message.                                                 *)
C7_FragmentCarriesBody ==
    (NonSuccess /\ ~net.text_fails /\ pc = "done") =>
        /\ frags = << <<"API Error: ", "Status ", Str(net.status), " - ", net.text>> >>
        /\ error_log = frags

(* C7 amended: on a non-success status the fragment yielded is "Error from  *)
(* AI provider (Status <code>). Check logs.", which holds the status and    *)
(* not the body text; the message "API Error: Status <code> - <body>", with *)
(* the body text read from the response (empty when reading it failed), is  *)
(* what is appended to error_log.                                           *)
C7_BodyGoesToLogOnly ==
    (NonSuccess /\ pc = "done") =>
        /\ frags = << <<"Error from AI provider (", "Status ", Str(net.status),
                        "). Check logs.">> >>
        /\ \A i \in 1..Len(frags[1]) : frags[1][i] # net.text
        /\ error_log = << <<"API Error: ", "Status ", Str(net.status), " - ",
                            IF net.text_fails THEN "" ELSE net.text>> >>

C7_Witness ==
    /\ NonSuccess /\ ~net.text_fails /\ net.status = 404
    /\ pc = "done"
    /\ error_log[1][5] = "model not found"
    /\ Len(frags) = 1

(* C8: a 200 response with a body of zero bytes yields exactly one          *)
(* fragment, "[Empty response]", and the call ends.                         *)
C8_EmptyBodySentinel ==
    (Streaming200 /\ net.body = <<>> /\ net.tail = "eof" /\ pc = "done") =>
        /\ frags = << <<"[Empty response]">> >>
        /\ result = "returned"
        /\ reads = 1

C8_Witness ==
    /\ Streaming200 /\ net.body = <<>> /\ net.tail = "eof"
    /\ pc = "done"
    /\ Len(frags) = 1

\* the fragments the decode loop yields for lines it reads through
RECURSIVE LoopFragments(_, _)
LoopFragments(b, lines) ==
    IF lines = <<>> THEN <<>>
    ELSE LET d == DecodeLine(b, lines[1])
         IN  (IF d.act = "yield" THEN <<ContentFragment(d.content)>> ELSE <<>>)
             \o LoopFragments(b, Tail(lines))

IsNetworkFragment(f) == Len(f) = 3 /\ f[1] = "Network error: "

(* C9: a call that met an aiohttp.ClientError, at the connection or at a    *)
(* readline, has ended: its last fragment is the one network-error          *)
(* fragment, the fragments before it are those of the lines read before the *)
(* error, in order, the failed read was the last read, and no step follows. *)
C9_NetworkErrorIsFinal ==
    (op = "generate" /\ exc.cls = "ClientError") =>
        /\ pc = "done" /\ result = "returned"
        /\ ~ENABLED Next
        /\ frags # <<>>
        /\ Last(frags) = <<"Network error: ", exc.msg, ". Please check connection.">>
        /\ \A i \in 1..(Len(frags) - 1) : ~IsNetworkFragment(frags[i])
        /\ Front(frags) = LoopFragments(backend, SubSeq(net.body, 1, lines_processed))
        /\ IF net.connect = "ClientError"
           THEN reads = 0 /\ Len(frags) = 1
           ELSE reads = Len(net.body) + 1 /\ lines_processed = Len(net.body)

C9_Witness ==
    /\ op = "generate" /\ exc.cls = "ClientError"
    /\ net.connect = "ok" /\ net.tail = "ClientError"
    /\ pc = "done"
    /\ Len(frags) = 3

\* the texts generate_response yields when an exception ends the call
ErrorFragments ==
    { <<"Network error: ", exc.msg, ". Please check connection.">>,
      <<"Sophia received a malformed response.">>,
      <<"Sophia encountered an unexpected problem. Details have been logged.">> }

(* C10: no call ends by raising.  A call of generate_response that met an   *)
(* exception (unknown backend name, connection failure, read failure,       *)
(* undecodable bytes, unexpected payload shape) has ended with an error     *)
(* text as its last fragment; a call of probe_backend_url that met an       *)
(* exception other than a caught attempt failure has returned false, and    *)
(* every finished probe has returned true or false.                         *)
C10_NoExceptionEscapes ==
    /\ result # "raised"
    /\ (op = "generate" /\ exc # NoExc) =>
          /\ pc = "done" /\ result = "returned"
          /\ frags # <<>> /\ Last(frags) \in ErrorFragments
    /\ (op = "probe" /\ pc = "done") =>
          /\ result = "returned"
          /\ reachable \in {"true", "false"}
          /\ (exc.cls \notin {"none", "ClientError"}) => reachable = "false"

C10_Witness ==
    /\ op = "generate" /\ pc = "done"
    /\ exc.cls = "UnicodeDecodeError"
    /\ Len(frags) = 3
    /\ result = "returned"

----------------------------------------------------------------------------
\* a fragment that reports how the call ended
IsTerminalFragment(f) ==
    \/ f = <<"[Empty response]">>
    \/ f[1] = "Error from AI provider ("
    \/ f[1] = "Network error: "
    \/ f = <<"Sophia received a malformed response.">>
    \/ f = <<"Sophia encountered an unexpected problem. Details have been logged.">>

\* the line read last is the terminal marker of the backend's protocol
TerminalMarkerRead ==
    /\ Streaming200
    /\ reads \in 1..Len(net.body)
    /\ IF backend = "Ollama"
       THEN NDJSONContentLine(net.body[reads]) /\ NDJSONDoneLine(net.body[reads])
       ELSE SSEDoneLine(net.body[reads])

\* the read made last met the end of the body
EndOfBodyRead == Streaming200 /\ reads = Len(net.body) + 1

(* C11: in every call of generate_response at most one terminal fragment is *)
(* yielded, it is the last fragment and the call has ended with it; once    *)
(* the terminal marker or the end of the body was read, or an exception was *)
(* met, the loop has been left and no readline follows; a call that has     *)
(* ended takes no further step.                                             *)
C11_TerminalExactlyOnce ==
    op = "generate" =>
        /\ \A i \in 1..Len(frags) :
              IsTerminalFragment(frags[i]) => (i = Len(frags) /\ pc = "done")
        /\ (TerminalMarkerRead \/ EndOfBodyRead \/ exc # NoExc) =>
              /\ pc \in {"finish", "done"}
              /\ ~ENABLED ReadLine
        /\ exc # NoExc => pc = "done"
        /\ pc = "done" => ~ENABLED Next

\* the call ended on the terminal marker after two content fragments
C11_Witness ==
    /\ TerminalMarkerRead /\ backend = "LM Studio"
    /\ reads = 3 /\ pc = "done"
    /\ Len(frags) = 2

----------------------------------------------------------------------------
(* C12: every call of generate_response ends: whatever lines the body holds *)
(* and whether it ends in end of body or in a read error, the call reaches  *)
(* its end; each readline moves one line on, so that no line is read twice, *)
(* and at most one readline is made beyond the lines of the body.           *)
C12_GeneratorTerminates ==
    /\ [](op = "generate" => <>(pc = "done" /\ result # "running"))
    /\ [](op = "generate" => reads <= Len(net.body) + 1
                             /\ lines_processed <= Len(net.body))
    /\ [][op = "generate" /\ pc = "reading" =>
            reads' = reads + 1 /\ lines_processed' <= reads']_vars

\* a body of blank, non-data and malformed lines only was read to its end
C12_Witness ==
    /\ Streaming200 /\ backend = "Hugging Face"
    /\ net.body = <<Line("", Blank), Line("data: ", Garbage)>>
    /\ net.tail = "eof"
    /\ pc = "done" /\ reads = 3 /\ lines_processed = 2

----------------------------------------------------------------------------
(* Vocabulary of the probe properties *)

\* the probe has returned
ProbeDone == op = "probe" /\ pc = "done"

\* the i-th attempt receives status 200 or 201
GotSuccessStatus(i) == net.probe[i].kind = "status" /\ net.probe[i].status \in {200, 201}

\* the i-th attempt receives another status
GotOtherStatus(i) == net.probe[i].kind = "status" /\ net.probe[i].status \notin {200, 201}

\* the i-th attempt meets a connection error
GotClientError(i) == net.probe[i].kind = "ClientError"

(* C13: probe_backend_url makes at most `retries` attempts; it returns true *)
(* exactly when the last attempt it made received 200 or 201, and no        *)
(* attempt before that one did; it returns false when none of the attempts  *)
(* it made received 200 or 201, another 2xx status included.                *)
C13_ProbeResult ==
    /\ op = "probe" => requests <= retries
    /\ ProbeDone =>
        /\ result = "returned"
        /\ reachable \in {"true", "false"}
        /\ \A i \in 1..(requests - 1) : ~GotSuccessStatus(i)
        /\ reachable = "true" <=> (requests >= 1 /\ GotSuccessStatus(requests))
        /\ reachable = "false" <=> (\A i \in 1..requests : ~GotSuccessStatus(i))

\* true at the second attempt of three, after a 204
C13_Witness ==
    /\ ProbeDone /\ retries = 3
    /\ net.probe[1] = StatusResult(204)
    /\ GotSuccessStatus(2)
    /\ requests = 2 /\ reachable = "true"

(* C14: when every attempt of probe_backend_url fails by a connection error *)
(* (aiohttp.ClientError) or by a status other than 200 and 201, exactly     *)
(* `retries` attempts are made and false is returned; when all of them fail *)
(* by a connection error, retries - 1 sleeps are made, none after the last  *)
(* attempt.                                                                 *)
C14_FailedAttemptsAreRetried ==
    /\ (ProbeDone /\ \A i \in 1..retries : GotClientError(i) \/ GotOtherStatus(i)) =>
          /\ requests = retries
          /\ reachable = "false"
          /\ result = "returned"
    /\ (ProbeDone /\ retries >= 1 /\ \A i \in 1..retries : GotClientError(i)) =>
          sleeps = retries - 1
    /\ (op = "probe" /\ pc = "sleep") => requests < retries

\* three attempts against an address that refuses the connection
C14_Witness ==
    /\ ProbeDone /\ retries = 3
    /\ \A i \in 1..3 : GotClientError(i)
    /\ requests = 3 /\ sleeps = 2 /\ reachable = "false"

(* C15: probe_backend_url sleeps between every two consecutive attempts,    *)
(* whatever made the earlier one fail: when the n-th attempt has started,   *)
(* n - 1 sleeps have been made.                                             *)
C15_SleepBetweenAttempts ==
    (op = "probe" /\ requests >= 1) => sleeps >= requests - 1

----------------------------------------------------------------------------
(* Vocabulary of the properties of the wrappers *)

\* auto_detect_endpoint has returned
Detected == caller = "auto_detect_endpoint" /\ ret.t # "unset"

\* test_model has returned its dictionary
Tested == caller = "test_model" /\ ret.t = "dict"

\* a fragment that reports an error
IsErrorFragment(f) ==
    \/ f[1] = "Error from AI provider ("
    \/ IsNetworkFragment(f)
    \/ f = <<"Sophia received a malformed response.">>
    \/ f = <<"Sophia encountered an unexpected problem. Details have been logged.">>

(* C16 as claimed: auto_detect_endpoint returns the backend's default URL   *)
(* whether its probe succeeded or failed.                                   *)
C16_ReturnsDefaultInBothOutcomes ==
    Detected => (ret.t = "str" /\ ret.v = DefaultUrl(backend))

(* C16 amended: auto_detect_endpoint probes the backend's default URL; it   *)
(* returns that URL when the probe succeeded and None when the probe        *)
(* failed.                                                                  *)
C16_DefaultOnlyWhenProbeSucceeds ==
    /\ caller = "auto_detect_endpoint" =>
          \A i \in 1..Len(sent) : sent[i].endpoint = DefaultUrl(backend)
    /\ Detected =>
          /\ reachable = "true" => (ret.t = "str" /\ ret.v = DefaultUrl(backend))
          /\ reachable # "true" => ret.t = "None"

\* three refused connections: None is returned
C16_Witness ==
    /\ Detected /\ backend = "LM Studio"
    /\ \A i \in 1..3 : GotClientError(i)
    /\ requests = 3 /\ reachable = "false"
    /\ ret.t = "None"

(* C17: test_model gives status EMPTY_SUCCESS to a run in which             *)
(* generate_response ended without an error and the fragments joined are    *)
(* the empty string.                                                        *)
C17_EmptyRunIsEmptySuccess ==
    (Tested /\ result = "returned" /\ exc = NoExc /\ Join(frags) = "") =>
        ret.v.status = "EMPTY_SUCCESS"

(* C18: test_model never gives status SUCCESS to a run whose last fragment  *)
(* is an error fragment of generate_response: the HTTP one, the network     *)
(* one, the malformed-response one or the unexpected-exception one.         *)
C18_ErrorRunIsNeverSuccess ==
    (Tested /\ frags # <<>> /\ IsErrorFragment(Last(frags))) =>
        ret.v.status # "SUCCESS"

(* C19: a chat request or a probe request carries an Authorization header   *)
(* only when the backend's descriptor requires an API key: for LM Studio    *)
(* and Ollama no request carries one, whatever api_key is passed; a header  *)
(* that is sent is the bearer form of the key passed.                       *)
C19_KeyOnlyWhereRequired ==
    \A i \in 1..Len(sent) :
        /\ sent[i].authorization # "" =>
              /\ RequiresApiKey(backend)
              /\ sent[i].authorization = "Bearer " \o api_key
        /\ backend \in {"LM Studio", "Ollama"} => sent[i].authorization = ""

\* three probe requests to Ollama by a caller that passed a key
C19_Witness ==
    /\ op = "probe" /\ backend = "Ollama" /\ api_key = "hf_secret"
    /\ Len(sent) = 3
    /\ \A i \in 1..3 : sent[i].authorization = ""

(* C20: a call of generate_response for a configured backend makes exactly  *)
(* one POST, none before the request is built and none after the first: to  *)
(* url + "/api/chat" for Ollama, to url itself for Hugging Face, to         *)
(* url + "/chat/completions" for LM Studio; when the first line has been    *)
(* read, an NDJSON content line has yielded its content if the backend is   *)
(* Ollama and nothing otherwise, an SSE content line its content if the     *)
(* backend is not Ollama and nothing otherwise.                             *)
C20_OnePostAndDecoderByBackend ==
    (op = "generate" /\ backend \in BACKEND_CONFIG) =>
        /\ Len(sent) = IF pc \in {"start", "post"} THEN 0 ELSE 1
        /\ \A i \in 1..Len(sent) :
              /\ sent[i].method = "POST"
              /\ backend = "Ollama" => sent[i].endpoint = url \o "/api/chat"
              /\ backend = "Hugging Face" => sent[i].endpoint = url
              /\ backend = "LM Studio" => sent[i].endpoint = url \o "/chat/completions"
        /\ (Streaming200 /\ reads = 1 /\ Len(net.body) >= 1) =>
              LET l == net.body[1]
              IN  /\ (NDJSONContentLine(l) /\ ContentOf("Ollama", l) # "") =>
                        /\ backend = "Ollama" => frags = << <<ContentOf("Ollama", l)>> >>
                        /\ backend # "Ollama" => frags = <<>>
                  /\ (SSEContentLine(l) /\ ContentOf("LM Studio", l) # "") =>
                        /\ backend # "Ollama" => frags = << <<ContentOf("LM Studio", l)>> >>
                        /\ backend = "Ollama" => frags = <<>>

\* Hugging Face at a typed URL, answered in NDJSON: one POST to the URL as
\* typed, and no fragment
C20_Witness ==
    /\ Streaming200 /\ backend = "Hugging Face" /\ url = CustomUrl
    /\ pc = "reading" /\ reads = 1
    /\ sent = <<Request("POST", CustomUrl, "")>>
    /\ Len(net.body) = 1 /\ NDJSONContentLine(net.body[1])
    /\ ContentOf("Ollama", net.body[1]) = "Hi"
    /\ frags = <<>>

----------------------------------------------------------------------------
\* a line of backend b whose payload is JSON of another shape than the
\* decoder expects: not an object, "message" null, "choices" an empty list
ShapelessLine(b, l) ==
    /\ l.utf8 /\ ~l.lead /\ l.pay.k = "json"
    /\ l.pre = (IF b = "Ollama" THEN "" ELSE "data: ")
    /\ \/ l.pay.v.t # "object"
       \/ b = "Ollama" /\ l.pay.v.message.p = "null"
       \/ b # "Ollama" /\ l.pay.v.choices.p = "list" /\ l.pay.v.choices.items = <<>>

\* the body starts: valid line, line of another shape, valid line
ValidShapelessValid ==
    /\ Streaming200
    /\ Len(net.body) >= 3
    /\ ValidLine(backend, net.body[1])
    /\ backend = "Ollama" => ~NDJSONDoneLine(net.body[1])
    /\ ShapelessLine(backend, net.body[2])
    /\ ValidLine(backend, net.body[3])

(* C25: a line whose payload is valid JSON of another shape than expected   *)
(* is skipped like a malformed line: between two content lines it does not  *)
(* end the loop, yields nothing and produces no error fragment, and the     *)
(* content line after it yields its fragment.                               *)
C25_ShapelessLineSkipped ==
    ValidShapelessValid =>
        /\ pc \in {"finish", "done"} => reads >= 3
        /\ exc = NoExc
        /\ error_log = <<>>
        /\ reads = 3 =>
             frags = << <<ContentOf(backend, net.body[1])>>,
                        <<ContentOf(backend, net.body[3])>> >>

(* C28: generate_response reads the body as a content stream only when the  *)
(* status is exactly 200: on every other status, 201 included, the call     *)
(* ends with the one provider-error fragment, one entry in error_log made   *)
(* of the status and the body text, no content fragment and no readline.    *)
C28_OnlyStatus200Streams ==
    (op = "generate" /\ backend \in BACKEND_CONFIG /\ net.connect = "ok") =>
        /\ pc \in {"reading", "finish"} => net.status = 200
        /\ reads > 0 => net.status = 200
        /\ (net.status # 200 /\ pc = "done") =>
             /\ frags = << <<"Error from AI provider (", "Status ", Str(net.status),
                             "). Check logs.">> >>
             /\ Len(error_log) = 1
             /\ error_log[1][1] = "API Error: "
             /\ exc = NoExc

\* a 201 whose body holds a content line: the error path
C28_Witness ==
    /\ op = "generate" /\ backend = "Ollama" /\ net.connect = "ok"
    /\ net.status = 201
    /\ Len(net.body) = 1 /\ ValidLine(backend, net.body[1])
    /\ pc = "done"
    /\ Len(frags) = 1 /\ Len(error_log) = 1

\* the attempts of the probe before the i-th that met a connection error
ClientErrorsBefore(i) == Cardinality({j \in 1..(i - 1) : GotClientError(j)})

\* the i-th attempt met an exception that is not an aiohttp.ClientError
GotOtherException(i) == net.probe[i].kind \notin {"status", "ClientError"}

(* C29: in probe_backend_url an attempt that raises an exception other than *)
(* aiohttp.ClientError is the last one: the probe returns false at once, no *)
(* later attempt is made and no sleep follows it, whatever number of        *)
(* attempts is left.                                                        *)
C29_OtherExceptionEndsProbe ==
    op = "probe" =>
        \A i \in 1..requests :
            GotOtherException(i) =>
                /\ requests = i
                /\ pc = "done"
                /\ reachable = "false"
                /\ result = "returned"
                /\ sleeps = ClientErrorsBefore(i)

\* a timeout at the first of three attempts
C29_Witness ==
    /\ ProbeDone /\ retries = 3
    /\ GotOtherException(1)
    /\ requests = 1 /\ sleeps = 0 /\ reachable = "false"

----------------------------------------------------------------------------
\* how often the character c occurs in text
RECURSIVE Occurrences(_, _)
Occurrences(text, c) ==
    IF text = "" THEN 0
    ELSE (IF SubSeq(text, 1, 1) = c THEN 1 ELSE 0)
         + Occurrences(SubSeq(text, 2, Len(text)), c)

\* parse_gl has returned
Parsed == op = "parse_gl" /\ pc = "done"

(* C27: parse_gl returns for every string, with a record whose status is   *)
(* SUCCESS or ERROR; with SUCCESS the record holds the accumulated params - *)
(* g_EM 1.0 for every EXCITE rune, coherence 0.9 for every COHERE rune and  *)
(* for every VITALIZE rune, one note for every known rune - and a           *)
(* simulation result; characters that are not runes of the dictionary add   *)
(* nothing.                                                                 *)
C27_ParseGlTaggedResult ==
    /\ op = "parse_gl" => ENABLED ParseGlCall \/ pc = "done"
    /\ Parsed =>
        /\ result = "returned"
        /\ ret.t = "dict"
        /\ ret.v.status \in {"SUCCESS", "ERROR"}
        /\ ret.v.status = "SUCCESS" =>
             /\ ret.v.params.g_EM = 10 * Occurrences(rune_string, "ᚲ")
             /\ ret.v.params.coherence =
                    9 * (Occurrences(rune_string, "ᛚ") + Occurrences(rune_string, "ᛞ"))
             /\ Len(ret.v.params.notes) =
                    Occurrences(rune_string, "ᚲ") + Occurrences(rune_string, "ᛚ")
                    + Occurrences(rune_string, "ᛞ")
             /\ ret.v.simulation.stability.den = 10 + ret.v.params.g_EM
             /\ Len(ret.v.simulation.phi_field) = 10

\* a string of a known rune twice and an unknown rune
C27_Witness ==
    /\ Parsed /\ rune_string = "ᚲᚢᚲ"
    /\ ret.v.status = "SUCCESS"
    /\ ret.v.params.g_EM = 20
    /\ ret.v.function_call = None

----------------------------------------------------------------------------
\* the call of generate_response went down a failure path: no connection, a
\* status other than 200, or an exception
FailurePath ==
    \/ net.connect # "ok"
    \/ backend \in BACKEND_CONFIG /\ net.status # 200 /\ pc = "done"
    \/ exc # NoExc

(* C21: a call of generate_response leaves the session state (transcript,   *)
(* memory_db, settings) as it found it; error_log gets exactly one entry on *)
(* a failure path (non-200 status, network error, other exception), made    *)
(* when the call ends with its error fragment, and no entry on a call that  *)
(* ends through the done flag, [DONE] or the end of the body.               *)
C21_OnlyErrorLogWritten ==
    op = "generate" =>
        /\ session_state = Defaults
        /\ Len(error_log) <= 1
        /\ pc = "done" => (Len(error_log) = 1 <=> FailurePath)
        /\ error_log # <<>> =>
              /\ pc = "done"
              /\ frags # <<>> /\ IsErrorFragment(Last(frags))

\* a connection lost after two content lines: one entry
C21_Witness ==
    /\ Streaming200 /\ net.tail = "ClientError"
    /\ pc = "done" /\ Len(frags) = 3
    /\ Len(error_log) = 1
    /\ session_state = Defaults


----------------------------------------------------------------------------
(* run_prototype: the chat form and the streaming logic.  One behaviour is  *)
(* a session: the script runs again after every st.rerun(), which raises    *)
(* and so ends the run that calls it                                        *)

\* the most accepted submissions of a session
MaxTurns == 4

\* the longest body of a reply in a session
MaxChatLines == 2

\* the entries of error_log after which no further submission is followed
MaxLogged == 2

\* what the user types into the form: nothing, a query, a rune string
UserInputs == {"", "hello", "ᚲᛚ"}

\* a bug: the new user turn is in the slice, messages[-6:]
RecentSliceWithNew(messages) ==
    LET n == Len(messages)
    IN  SubSeq(messages, IF n > 6 THEN n - 5 ELSE 1, n)

\* line 575: messages[-6:-1]
RecentSlice(messages) ==
    LET n == Len(messages)
    IN  SubSeq(messages, IF n > 6 THEN n - 5 ELSE 1, n - 1)

\* line 575: current_context
CurrentContext(messages) ==
    LET recent == RecentSlice(messages)
    IN  [i \in 1..Len(recent) |-> ContextItem(recent[i])]

\* line 595: any(rune in user_input for rune in RUNE_DICT)
HasRune(user_input) == \E rune \in RUNE_DICT : Contains(user_input, rune)

RECURSIVE JoinNotes(_)
JoinNotes(notes) ==
    IF notes = <<>> THEN ""
    ELSE "\"" \o Head(notes) \o "\"" \o (IF Len(notes) > 1 THEN ", " ELSE "")
         \o JoinNotes(Tail(notes))

\* line 597: json.dumps(result, indent=2), without the white space of the
\* indentation and without the numbers of the simulation
Dumps(gl_result) ==
    IF gl_result.status = "ERROR"
    THEN "{\"status\": \"ERROR\", \"error\": \"" \o gl_result.error \o "\"}"
    ELSE "{\"status\": \"SUCCESS\", \"params\": {\"g_EM\": " \o Tenths(gl_result.params.g_EM)
         \o ", \"coherence\": " \o Tenths(gl_result.params.coherence)
         \o ", \"zeta\": " \o Tenths(gl_result.params.zeta)
         \o ", \"notes\": [" \o JoinNotes(gl_result.params.notes) \o "]}"
         \o ", \"simulation\": {\"log\": \"" \o JoinPieces(gl_result.simulation.log) \o "\"}"
         \o (IF gl_result.function_call # None
             THEN ", \"function_call\": \"" \o gl_result.function_call[1] \o "\"" ELSE "")
         \o "}"

\* a bug: the test against last_input is missing
AcceptedTwice(ss, user_input) ==
    /\ user_input # ""
    /\ Truthy(ss.selected_backend)
    /\ Truthy(ss.selected_model)

\* line 573, for a pressed Send button
Accepted(ss, user_input) ==
    /\ user_input # ""
    /\ Some(user_input) # ss.last_input
    /\ Truthy(ss.selected_backend)
    /\ Truthy(ss.selected_model)

\* lines 574-593: the user turn, the context and the memory_db entry (its
\* timestamp is left out)
Archive(ss, user_input, uploaded_image) ==
    LET messages == Append(ss.messages, Message("user", user_input))
        current_context == CurrentContext(messages)
        processed_context == IF uploaded_image
                             THEN Append(current_context, ImageItem)
                             ELSE current_context
    IN  [ss EXCEPT !.input_submitted = TRUE,
                   !.last_input = Some(user_input),
                   !.messages = messages,
                   !.memory_db = Append(@, [input |-> user_input,
                                            context |-> processed_context,
                                            output |-> None])]

\* memory_db[-1]['output'] = output
SetOutput(memory_db, output) ==
    IF memory_db = <<>> THEN memory_db
    ELSE [memory_db EXCEPT ![Len(memory_db)].output = Some(output)]

\* lines 595-606: the reply of parse_gl, or the placeholder of the stream
Process(ss, user_input) ==
    IF HasRune(user_input)
    THEN LET response_content == Dumps(parse_gl(user_input))
         IN  [ss EXCEPT !.messages = Append(@, Message("assistant", response_content)),
                        !.memory_db = SetOutput(@, response_content),
                        !.input_submitted = FALSE]
    ELSE [ss EXCEPT !.messages = Append(@, Message("assistant", ""))]

\* lines 612-615: the condition of the streaming logic
StreamingCondition(ss) ==
    /\ ss.messages # <<>>
    /\ ss.messages[Len(ss.messages)].role = "assistant"
    /\ ss.messages[Len(ss.messages)].content = ""
    /\ ss.input_submitted

\* lines 619-621: memory_db[-1].get('context', [])
ArchivedContext(ss) ==
    IF ss.memory_db = <<>> THEN <<>> ELSE ss.memory_db[Len(ss.memory_db)].context

\* the lines a backend sends in a session
ChatLines(b) ==
    IF b = "Ollama"
    THEN {Line("", Blank), Line("", Json(OllamaChunk("Hi")))}
    ELSE {Line("", Blank), Line("data: ", Json(SSEChunk("Hi")))}

\* the exchanges of a session; a request that cannot be serialised meets
\* none
ChatScripts(b, messages) ==
    IF ~Serializable(messages) THEN {NoScript}
    ELSE {Script("ClientError", 0, "", FALSE, <<>>, "eof", <<>>)}
         \cup {Script("ok", 200, "", FALSE, body, "eof", <<>>) :
                 body \in SeqsUpTo(ChatLines(b), MaxChatLines)}

\* the locals of a call that is over
CallOver ==
    /\ op' = "idle"
    /\ backend' = "none"
    /\ net' = NoScript
    /\ pc' = "start"
    /\ result' = "running"
    /\ exc' = NoExc
    /\ reads' = 0
    /\ lines_processed' = 0
    /\ frags' = <<>>
    /\ sent' = <<>>
    /\ url' = ""
    /\ context' = <<>>

\* lines 612-642: the streaming logic is reached; with its condition true
\* generate_response is called with the values of the session
StreamingLogic ==
    IF StreamingCondition(session_state)
    THEN /\ ui' = "streaming"
         /\ op' = "generate"
         /\ caller' = "run_prototype"
         /\ backend' = session_state.selected_backend[1]
         /\ url' = session_state.backend_url
         /\ api_key' = session_state.api_key
         /\ context' = ArchivedContext(session_state)
         /\ net' \in ChatScripts(session_state.selected_backend[1],
                                  ArchivedContext(session_state))
         /\ pc' = "start"
         /\ result' = "running"
         /\ exc' = NoExc
         /\ reads' = 0
         /\ lines_processed' = 0
         /\ frags' = <<>>
         /\ sent' = <<>>
         /\ UNCHANGED <<error_log, ret, rune_string>>
         /\ UNCHANGED probeVars
    ELSE /\ ui' = "idle"
         /\ CallOver
         /\ UNCHANGED <<error_log, ret, rune_string, caller, api_key>>
         /\ UNCHANGED probeVars

\* lines 566-606: Send is pressed.  An accepted submission ends in st.rerun();
\* after any other the run goes on to the streaming logic
Submit(user_input, uploaded_image) ==
    /\ ui = "idle"
    /\ IF Accepted(session_state, user_input)
       THEN /\ Len(session_state.messages) < 2 * MaxTurns
            /\ Len(error_log) < MaxLogged
            /\ session_state' = Process(Archive(session_state, user_input, uploaded_image),
                                        user_input)
            /\ ui' = "rerun"
            /\ UNCHANGED <<op, backend, net, pc, result, exc, sent, ret>>
            /\ UNCHANGED genVars
            /\ UNCHANGED probeVars
            /\ UNCHANGED <<caller, api_key, url, context, rune_string>>
       ELSE /\ UNCHANGED session_state
            /\ StreamingLogic

\* lines 530-535: the Clear History button
ClearHistory ==
    /\ ui = "idle"
    /\ session_state' = [session_state EXCEPT !.messages = <<>>,
                                              !.memory_db = <<>>,
                                              !.input_submitted = FALSE,
                                              !.last_input = None]
    /\ ui' = "rerun"
    /\ UNCHANGED <<op, backend, net, pc, result, exc, sent, ret>>
    /\ UNCHANGED genVars
    /\ UNCHANGED probeVars
    /\ UNCHANGED <<caller, api_key, url, context, rune_string>>

\* the run after st.rerun(): no button is pressed in it
RerunScript ==
    /\ ui = "rerun"
    /\ UNCHANGED session_state
    /\ StreamingLogic

\* line 635: the async for asks generate_response for its next fragment
Consuming == ui = "streaming" /\ frags = <<>>

\* lines 643-645: the body of the async for, for the fragment just yielded:
\* full_response_content, "" at the start of the run, grows by the chunk and
\* st.rerun() leaves the loop and the generator behind
StreamChunk ==
    /\ ui = "streaming" /\ frags # <<>>
    /\ LET chunk == JoinPieces(Last(frags))
           full_response_content == "" \o chunk
       IN  session_state' =
               [session_state EXCEPT
                   !.messages[Len(session_state.messages)].content = full_response_content]
    /\ ui' = "rerun"
    /\ UNCHANGED <<op, backend, net, pc, result, exc, sent, ret>>
    /\ UNCHANGED genVars
    /\ UNCHANGED probeVars
    /\ UNCHANGED <<caller, api_key, url, context, rune_string>>

\* lines 650-656: the generator has ended without a fragment
StreamEnd ==
    /\ ui = "streaming" /\ frags = <<>>
    /\ pc = "done" /\ result = "returned"
    /\ LET full_response_content == ""
       IN  session_state' =
               [session_state EXCEPT
                   !.messages[Len(session_state.messages)].content = full_response_content,
                   !.memory_db = SetOutput(@, full_response_content),
                   !.input_submitted = FALSE]
    /\ ui' = "rerun"
    /\ UNCHANGED <<op, backend, net, pc, result, exc, sent, ret>>
    /\ UNCHANGED genVars
    /\ UNCHANGED probeVars
    /\ UNCHANGED <<caller, api_key, url, context, rune_string>>

\* a session whose settings are made: no backend, a backend without a
\* model, or a backend and a model
ChatInit ==
    /\ op = "idle"
    /\ \E b \in {"none", "Ollama", "LM Studio"}, has_model \in BOOLEAN :
          /\ b = "none" => ~has_model
          /\ session_state =
                [Defaults EXCEPT
                    !.selected_backend = IF b = "none" THEN None ELSE Some(b),
                    !.backend_url = IF b = "none" THEN "" ELSE DefaultUrl(b),
                    !.available_models = IF has_model THEN <<"llama3">> ELSE <<>>,
                    !.selected_model = IF has_model THEN Some("llama3") ELSE None]
    /\ ui = "idle"
    /\ backend = "none"
    /\ net = NoScript
    /\ retries = 0
    /\ caller = "run_prototype"
    /\ api_key = ""
    /\ url = ""
    /\ context = <<>>
    /\ rune_string = ""
    /\ InitLocals

ChatNext ==
    \/ \E user_input \in UserInputs, uploaded_image \in BOOLEAN :
          Submit(user_input, uploaded_image)
    \/ ClearHistory
    \/ RerunScript
    \/ Consuming /\ BuildRequest
    \/ Consuming /\ Post
    \/ Consuming /\ ReadLine
    \/ Consuming /\ FinishStream
    \/ StreamChunk
    \/ StreamEnd

ChatSpec == ChatInit /\ [][ChatNext]_vars


----------------------------------------------------------------------------
(* The session: what generate_response is handed *)

\* generate_response has been called by the streaming logic
GenerationStarted == ui = "streaming" /\ op = "generate"

\* the transcript without the new user turn and the placeholder
TurnsBefore(messages) == SubSeq(messages, 1, Len(messages) - 2)

\* the last five of a sequence, or all of them
LastFive(turns) ==
    IF Len(turns) <= 5 THEN turns ELSE SubSeq(turns, Len(turns) - 4, Len(turns))

\* role and content of each turn
Items(turns) == [i \in 1..Len(turns) |-> ContextItem(turns[i])]

(* C22 as stated: the history window generate_response is called with holds *)
(* at most 5 items, and they are the most recent turns of the transcript    *)
(* that precede the new user turn, in transcript order.                     *)
C22_WindowIsRecentTurns ==
    GenerationStarted =>
        /\ Len(context) <= 5
        /\ context = Items(LastFive(TurnsBefore(session_state.messages)))

(* C22, amended: an accepted submission archives the at most 5 most recent  *)
(* turns that precede the new user turn, in transcript order, followed by   *)
(* one image item exactly when an image was uploaded with it; that list, of *)
(* at most 6 items, is the window generate_response is called with, and the *)
(* new user turn and the placeholder are not in it.                         *)
C22_WindowAndImageItem ==
    /\ [][\A user_input \in UserInputs, uploaded_image \in BOOLEAN :
            (Submit(user_input, uploaded_image) /\ Accepted(session_state, user_input)) =>
                ArchivedContext(session_state') =
                    Items(LastFive(session_state.messages))
                    \o (IF uploaded_image THEN <<ImageItem>> ELSE <<>>)]_vars
    /\ [](GenerationStarted =>
            LET messages == session_state.messages
                window == Items(LastFive(TurnsBefore(messages)))
            IN  /\ context = ArchivedContext(session_state)
                /\ context \in {window, window \o <<ImageItem>>}
                /\ Len(context) <= 6
                /\ messages[Len(messages) - 1] = Message("user", session_state.last_input[1])
                /\ messages[Len(messages)] = Message("assistant", ""))

\* the fourth turn of a session, sent with an image: the first turn of the
\* transcript is no longer in the window and the image item is its sixth item
C22_Witness ==
    /\ GenerationStarted
    /\ Len(session_state.messages) = 8
    /\ Len(context) = 6
    /\ context[1] = ContextItem(session_state.messages[2])
    /\ context[6] = ImageItem


\* lines 204-210: the message list of the request, without the system turn
RequestMessages ==
    context \o <<[role |-> "user", content |-> session_state.last_input[1],
                  image_data |-> FALSE]>>

(* C23: the message list of a generation request (system turn, history      *)
(* window, new user turn) holds no assistant turn whose content is the      *)
(* empty string, whatever the earlier generations of the session gave.      *)
C23_NoEmptyAssistantTurn ==
    GenerationStarted =>
        \A i \in 1..Len(RequestMessages) :
            ~(RequestMessages[i].role = "assistant" /\ RequestMessages[i].content = "")


\* the fragments generate_response produces on an exchange, up to its
\* terminal state: those of a call read to its end
FullReply(b, script) ==
    IF script.connect # "ok"
    THEN <<NetworkErrorFragment(Exc(script.connect, "Cannot connect to host"))>>
    ELSE IF script.body = <<>> THEN <<EmptyResponse>>
    ELSE LoopFragments(b, script.body)

\* the streaming step of a turn is over: the run that consumed the generator
\* has ended in st.rerun()
StreamingStepOver == ui = "rerun" /\ op = "generate"

(* C24: when the streaming step of a turn is over, the content of the       *)
(* latest assistant turn is the concatenation, in yield order, of every     *)
(* fragment generate_response produces for the call up to its terminal      *)
(* state, and the generator has been consumed to its end.                   *)
C24_ReplyIsWholeStream ==
    (StreamingStepOver /\ Serializable(context)) =>
        /\ pc = "done"
        /\ Last(session_state.messages).content = Join(FullReply(backend, net))


\* a backend and a model are selected
Configured(ss) == Truthy(ss.selected_backend) /\ Truthy(ss.selected_model)

(* C30: a submission whose text equals last_input is ignored: it appends no *)
(* turn, adds no memory_db entry and starts no generation; a submission is  *)
(* accepted only when a backend and a model are selected; Clear History     *)
(* resets last_input, and after it every non-empty text, the one accepted   *)
(* last included, is accepted again.                                        *)
C30_InputDeduplication ==
    /\ [][\A user_input \in UserInputs, uploaded_image \in BOOLEAN :
            Submit(user_input, uploaded_image) =>
                /\ Some(user_input) = session_state.last_input =>
                      /\ session_state' = session_state
                      /\ ui' = "idle"
                      /\ op' # "generate"
                /\ session_state' # session_state =>
                      /\ Configured(session_state)
                      /\ session_state'.last_input = Some(user_input)]_vars
    /\ [][ClearHistory => /\ session_state'.last_input = None
                          /\ session_state'.messages = <<>>]_vars
    /\ []((/\ ui = "idle"
           /\ session_state.messages = <<>>
           /\ Configured(session_state)
           /\ Len(error_log) < MaxLogged) =>
              \A user_input \in UserInputs \ {""} :
                  ENABLED (/\ Submit(user_input, FALSE)
                           /\ session_state'.last_input = Some(user_input)
                           /\ Len(session_state'.messages) = 2))

\* "hello" was accepted and its generation failed, the history was cleared,
\* and "hello" was accepted again: two entries in error_log (each from a
\* generation, so from "hello") and one turn in the transcript; the session
\* rests with last_input "hello", where sending it once more is ignored
C30_Witness ==
    /\ ui = "idle"
    /\ Len(error_log) = 2
    /\ Len(session_state.messages) = 2
    /\ Len(session_state.memory_db) = 1
    /\ session_state.last_input = Some("hello")


----------------------------------------------------------------------------
(* run_prototype: the settings of the sidebar.  A run in which the backend  *)
(* or the API key has changed calls auto_detect_endpoint, and goes on when  *)
(* it has returned                                                          *)

\* a bug: no fallback, the returned value is taken as it is
PyOrNoFallback(value, fallback) == IF value.t = "None" THEN "" ELSE value.v

\* value or fallback, for a value that is None or a string
PyOr(value, fallback) == IF value.t = "None" \/ value.v = "" THEN fallback ELSE value.v

\* the options of the selectbox "Select Backend"
BackendOptions == <<"LM Studio", "Ollama", "Hugging Face">>

\* what the user may type into the field "Backend URL": nothing, or a URL
TypedUrls == {"", CustomUrl}

\* what the user may type into the field "API Key"
TypedKeys == {"", "hf_secret"}

\* what the probes of a session can meet
SettingsScripts ==
    {Script("ok", 0, "", FALSE, <<>>, "eof", probe) :
        probe \in [1..DefaultRetries ->
                      {StatusResult(200), StatusResult(404),
                       AttemptFails("ClientError"), AttemptFails("TimeoutError")}]}

\* lines 456 and 470: asyncio.run(auto_detect_endpoint(backend, api_key)) is
\* called
CallAutoDetect(b, key) ==
    /\ op' = "probe"
    /\ caller' = "auto_detect_endpoint"
    /\ backend' = b
    /\ url' = DefaultUrl(b)
    /\ api_key' = key
    /\ retries' = DefaultRetries
    /\ net' \in SettingsScripts
    /\ pc' = "start"
    /\ result' = "running"
    /\ exc' = NoExc
    /\ attempt' = 0
    /\ requests' = 0
    /\ sleeps' = 0
    /\ reachable' = "unset"
    /\ sent' = <<>>
    /\ ret' = NotReturned
    /\ UNCHANGED genVars
    /\ UNCHANGED <<context, rune_string>>

\* the locals of the probe are gone; what auto_detect_endpoint returned stays
ProbeOver ==
    /\ op' = "idle"
    /\ net' = NoScript
    /\ pc' = "start"
    /\ result' = "running"
    /\ exc' = NoExc
    /\ attempt' = 0
    /\ requests' = 0
    /\ sleeps' = 0
    /\ reachable' = "unset"
    /\ sent' = <<>>
    /\ UNCHANGED <<backend, url, api_key, caller, retries, ret>>
    /\ UNCHANGED genVars
    /\ UNCHANGED <<context, rune_string>>

\* st.text_input(label, value=value, key=key): the text typed in this run, or
\* the value argument in a run in which the field was not edited
TextInput(value, typed) == IF typed # None THEN typed[1] ELSE value

\* lines 460-464: the field "Backend URL" and the assignment after it
UrlField(ss, typed) ==
    LET backend_url == TextInput(ss.backend_url, typed)
    IN  IF backend_url # ss.backend_url
        THEN [ss EXCEPT !.backend_url = backend_url] ELSE ss

\* lines 453-455: another backend is chosen in the selectbox.  In the first
\* run the selectbox gives its first option
SelectBackend(b) ==
    /\ ui = "idle"
    /\ \E i \in 1..Len(BackendOptions) : BackendOptions[i] = b
    /\ session_state.selected_backend = None => b = BackendOptions[1]
    /\ Some(b) # session_state.selected_backend
    /\ session_state' = [session_state EXCEPT !.selected_backend = Some(b)]
    /\ ui' = "selecting"
    /\ CallAutoDetect(b, session_state.api_key)

\* lines 456-472: auto_detect_endpoint has returned to the run of a selection
SelectionDone ==
    /\ ui = "selecting" /\ ret.t # "unset"
    /\ LET selected == [session_state EXCEPT
                           !.backend_url = PyOr(ret, DefaultUrl(backend)),
                           !.available_models = <<>>,
                           !.selected_model = None]
       IN  session_state' = UrlField(selected, None)
    /\ ui' = "idle"
    /\ ProbeOver

\* lines 460-464: the user has typed into the field "Backend URL"
EditUrl(typed) ==
    /\ ui = "idle"
    /\ session_state.selected_backend # None
    /\ typed # session_state.backend_url
    /\ session_state' = UrlField(session_state, Some(typed))
    /\ UNCHANGED <<op, backend, net, pc, result, exc, sent, ret, ui>>
    /\ UNCHANGED genVars
    /\ UNCHANGED probeVars
    /\ UNCHANGED <<caller, api_key, url, context, rune_string>>

\* lines 460-470: the user has typed into the field "API Key", which exists
\* for a backend whose descriptor asks for a key
ChangeApiKey(typed) ==
    /\ ui = "idle"
    /\ session_state.selected_backend # None
    /\ RequiresApiKey(session_state.selected_backend[1])
    /\ typed # session_state.api_key
    /\ session_state' = [UrlField(session_state, None) EXCEPT !.api_key = typed]
    /\ ui' = "rekeying"
    /\ CallAutoDetect(session_state.selected_backend[1], typed)

\* line 470: auto_detect_endpoint has returned to the run of a key change
ApiKeyDone ==
    /\ ui = "rekeying" /\ ret.t # "unset"
    /\ session_state' = [session_state EXCEPT
                            !.backend_url = PyOr(ret, DefaultUrl(backend))]
    /\ ui' = "idle"
    /\ ProbeOver

\* a new session; HF_TOKEN may be set in the environment
SettingsInit ==
    /\ op = "idle"
    /\ session_state \in {[Defaults EXCEPT !.api_key = key] : key \in TypedKeys}
    /\ ui = "idle"
    /\ backend = "none"
    /\ net = NoScript
    /\ retries = DefaultRetries
    /\ caller = "auto_detect_endpoint"
    /\ api_key = ""
    /\ url = ""
    /\ context = <<>>
    /\ rune_string = ""
    /\ InitLocals

SettingsNext ==
    \/ \E b \in BACKEND_CONFIG : SelectBackend(b)
    \/ \E typed \in TypedUrls : EditUrl(typed)
    \/ \E typed \in TypedKeys : ChangeApiKey(typed)
    \/ ProbeOpen
    \/ ProbeAttempt
    \/ ProbeSleep
    \/ ProbeExhausted
    \/ AutoDetectReturn
    \/ SelectionDone
    \/ ApiKeyDone

SettingsSpec == SettingsInit /\ [][SettingsNext]_vars

\* a run that called auto_detect_endpoint has ended
SettingsRunEnds == ui \in {"selecting", "rekeying"} /\ ui' = "idle"

(* C26: after every backend selection and every API-key change, session     *)
(* backend_url is non-empty and is the configured default URL of the        *)
(* selected backend, when the probe of that default succeeded (the resolver *)
(* returned it) and when it failed (the resolver returned None).            *)
C26_UrlIsDefaultAfterSelection ==
    [][SettingsRunEnds =>
          /\ session_state'.selected_backend = Some(backend)
          /\ session_state'.backend_url # ""
          /\ session_state'.backend_url = DefaultUrl(backend)
          /\ ret \in {PyNone, PyStr(DefaultUrl(backend))}
          /\ ret = PyNone <=> reachable = "false"]_vars

\* Hugging Face selected after a typed URL, the probe of its default failed:
\* the resolver returned None and the session holds the default URL
C26_Witness ==
    /\ ui = "idle"
    /\ ret = PyNone
    /\ session_state.selected_backend = Some("Hugging Face")
    /\ session_state.backend_url = DefaultUrl("Hugging Face")
    /\ session_state.api_key = "hf_secret"

====
